---- MODULE Spec2Model ----
\* A model of the OptiMUS staged modeling pipeline (src/main.py) and of its
\* code synthesizer (src/generate_code.py).
\*
\* Text is modelled as a sequence of string tokens: an f-string is the
\* sequence of its literal parts and interpolated values, and "\n".join(code)
\* is the sequence of the pieces appended to `code` (the separator is implicit
\* between two consecutive pieces).
EXTENDS Integers, Sequences, FiniteSets, TLC

VARIABLES
    \* ---- the batch run of main.py ----
    cfg,        \* command line: [num_workers |-> --num-workers]
    dirs,       \* the list of problem directories of the batch
    env,        \* what the run finds: [stale |-> directories that hold an old run]
    pc,         \* dir -> position of process_single_dir for that directory
    state,      \* dir -> the local variable `state` of process_single_dir
    fs,         \* run directory -> file name -> <<>> (absent), <<content>> or
                \* CutOff(content) (only part of the content is written)
    trace,      \* dir -> the events of the run so far, in order
    outcome,    \* dir -> <<>> or <<what process_single_dir returned / raised>>
    execEnd,    \* dir -> terminal state reached by execute_and_debug ("" if none)
    batch,      \* "running", "returned" or "raised": the executor.map call
    results,    \* the list `results` of the batch call
    \* ---- one call of generate_code on an arbitrary Problem State ----
    gState,     \* the Problem State handed to generate_code
    gInfo,      \* <<>> or <<contents of problem_info.json>>
    gOut,       \* <<>> or <<result of generate_code>>
    \* ---- one run of the result-emission section of the synthesized program ----
    mPc,        \* position in the synthesized program
    mStatus,    \* model.status after model.optimize()
    mSolCount,  \* number of solutions the solver holds
    mObjVal,    \* objective value of the incumbent, when there is one
    mFile,      \* output_solution.txt: <<>> (absent) or <<text>>
    mExc        \* "" or the exception that ended the program

batchVars == <<cfg, dirs, env, pc, state, fs, trace, outcome, execEnd, batch, results>>
genVars == <<gState, gInfo, gOut>>
emitVars == <<mPc, mStatus, mSolCount, mObjVal, mFile, mExc>>
vars == <<batchVars, genVars, emitVars>>

\* ------------------------------------------------------------------
\* Bounds of the model
NumDirs == 2        \* problem directories of a batch: 1..NumDirs
MaxWorkers == 2     \* --num-workers is 1 (one worker at a time) or MaxWorkers
MaxParams == 2
MaxVars == 2
MaxCons == 2
MaxStatus == 9      \* solver status codes considered: GRB_OPTIMAL..MaxStatus
MaxObjVal == 2      \* objective values considered: 0..MaxObjVal

\* ------------------------------------------------------------------
\* Text helpers

Range(s) == {s[i] : i \in DOMAIN s}

RECURSIVE Flatten(_)
Flatten(ss) == IF ss = <<>> THEN <<>> ELSE Head(ss) \o Flatten(Tail(ss))

\* sep.join(parts), each part a text
RECURSIVE Join(_, _)
Join(parts, sep) ==
    IF parts = <<>> THEN <<>>
    ELSE IF Len(parts) = 1 THEN parts[1]
    ELSE parts[1] \o <<sep>> \o Join(Tail(parts), sep)

Digits == <<"0", "1", "2", "3", "4", "5", "6", "7", "8", "9">>

\* str(i) of a natural number
RECURSIVE Str(_)
Str(i) == IF i < 10 THEN <<Digits[i + 1]>>
          ELSE Str(i \div 10) \o <<Digits[(i % 10) + 1]>>

\* str(shape) of a list of integers, as an f-string interpolates it
ListRepr(shape) ==
    <<"[">> \o Join([i \in DOMAIN shape |-> Str(shape[i])], ", ") \o <<"]">>

\* a string whose characters matter is the sequence of its characters
LowerCase == <<"a", "b", "c", "d", "e", "f", "g", "h", "i", "j", "k", "l", "m",
               "n", "o", "p", "q", "r", "s", "t", "u", "v", "w", "x", "y", "z">>
UpperCase == <<"A", "B", "C", "D", "E", "F", "G", "H", "I", "J", "K", "L", "M",
               "N", "O", "P", "Q", "R", "S", "T", "U", "V", "W", "X", "Y", "Z">>

\* c.upper() of one character: a lower-case letter becomes its capital, every
\* other character stays
UpperChar(c) ==
    IF c \in Range(LowerCase)
    THEN UpperCase[CHOOSE i \in DOMAIN LowerCase : LowerCase[i] = c]
    ELSE c

\* type.upper()
Upper(type) == [i \in DOMAIN type |-> UpperChar(type[i])]

\* ------------------------------------------------------------------
\* src/generate_code.py

NotImplementedError == <<"NotImplementedError">>

get_var_code(symbol, shape, type, definition, solver) ==
    IF solver = "gurobipy"
    THEN IF shape = <<>>
         THEN <<symbol, " = model.addVar(vtype=GRB.">> \o Upper(type)
                \o <<", name=\"", symbol, "\")\n">>
         ELSE <<symbol, " = model.addVars(">>
                \o Join([i \in DOMAIN shape |-> Str(shape[i])], ", ")
                \o <<", vtype=GRB.">> \o Upper(type)
                \o <<", name=\"", symbol, "\")\n">>
    ELSE NotImplementedError

get_param_code(symbol, shape, definition) ==
    <<symbol, " = data[\"", symbol, "\"] # shape: ">> \o ListRepr(shape)
        \o <<", definition: ", definition, "\n">>

Preamble == <<"import os", "import numpy as np", "import json",
              "from gurobipy import Model, GRB, quicksum",
              "model = Model(\"OptimizationProblem\")",
              "with open(\"data.json\", \"r\") as f: data = json.load(f)">>
ParamHeader == <<"\n\n### Define the parameters\n">>
VarHeader == <<"\n\n### Define the variables\n">>
ConsHeader == <<"\n\n### Define the constraints\n">>
ObjHeader == <<"\n\n### Define the objective\n">>
SolveHeader == <<"\n\n### Optimize the model\n">>
SolveCall == <<"model.optimize()\n">>
OutputHeader == <<"\n\n### Output optimal objective value\n">>
PrintObjective == <<"print(\"Optimal Objective Value: \", model.objVal)\n">>
EmitResult == <<"if model.status == GRB.OPTIMAL:",
                "with open(\"output_solution.txt\", \"w\") as f:",
                "f.write(str(model.objVal))",
                "print(\"Optimal Objective Value: \", model.objVal)",
                "else:",
                "with open(\"output_solution.txt\", \"w\") as f:",
                "f.write(model.status)">>

\* problem_info["parameters"][symbol], when problem_info.json was read, has a
\* "parameters" object and lists the symbol: <<entry>>, else <<>>
InfoEntry(problem_info, symbol) ==
    IF problem_info = <<>> THEN <<>>
    ELSE IF problem_info[1].parameters = <<>> THEN <<>>
    ELSE LET ps == problem_info[1].parameters[1]
             hits == {i \in DOMAIN ps : ps[i].symbol = symbol}
         IN IF hits = {} THEN <<>> ELSE <<ps[CHOOSE i \in hits : TRUE]>>

\* a bug: the ground truth found in problem_info.json is used for every
\* parameter, listed there or not
ParamLineUnchecked(problem_info, v) ==
    IF problem_info # <<>> /\ problem_info[1].parameters # <<>>
           /\ problem_info[1].parameters[1] # <<>>
    THEN get_param_code(v.symbol, problem_info[1].parameters[1][1].shape,
                        problem_info[1].parameters[1][1].description)
    ELSE get_param_code(v.symbol, v.shape, v.definition)

\* the binding appended for one entry of state["parameters"] (lines 50-59)
ParamLine(problem_info, v) ==
    LET gt == InfoEntry(problem_info, v["symbol"])
    IN IF gt # <<>>
       THEN get_param_code(v["symbol"], gt[1]["shape"], gt[1]["description"])
       ELSE get_param_code(v["symbol"], v["shape"], v["definition"])

ParamSection(st, problem_info) ==
    [i \in DOMAIN st["parameters"] |-> ParamLine(problem_info, st["parameters"][i])]

VarSection(st) ==
    [i \in DOMAIN st["variables"] |->
        get_var_code(st["variables"][i]["symbol"], st["variables"][i]["shape"],
                     st["variables"][i]["type"], st["variables"][i]["definition"],
                     "gurobipy")]

\* a bug: the fragments are emitted last constraint first
ConstraintSectionReversed(st) ==
    [i \in DOMAIN st["constraints"] |->
        st["constraints"][Len(st["constraints"]) + 1 - i]["code"]]

ConstraintSection(st) ==
    [i \in DOMAIN st["constraints"] |-> st["constraints"][i]["code"]]

\* the KeyError generate_code raises on a state that lacks what it reads:
\* a top-level field, the shape or definition of a parameter that
\* problem_info.json does not list, the shape or description of a ground-truth
\* entry, the shape, type or definition of a variable, the code of a constraint
\* or of the objective
GenKeyError(st, problem_info) ==
    \/ {"parameters", "variables", "constraints", "objective"} \ DOMAIN st # {}
    \/ \E i \in DOMAIN st["parameters"] :
          LET v == st["parameters"][i]
              gt == InfoEntry(problem_info, v["symbol"])
          IN IF gt # <<>>
             THEN {"shape", "description"} \ DOMAIN gt[1] # {}
             ELSE {"shape", "definition"} \ DOMAIN v # {}
    \/ \E i \in DOMAIN st["variables"] :
          {"shape", "type", "definition"} \ DOMAIN st["variables"][i] # {}
    \/ \E i \in DOMAIN st["constraints"] : "code" \notin DOMAIN st["constraints"][i]
    \/ "code" \notin DOMAIN st["objective"]

\* generate_code(state, dir, problem_dir): the text written to dir/code.py,
\* or the exception raised. problem_info is what problem_dir/problem_info.json
\* holds (<<>> when problem_dir is None or the file does not exist).
generate_code(st, problem_info) ==
    IF GenKeyError(st, problem_info) THEN [err |-> "KeyError", code |-> <<>>]
    ELSE [err |-> "",
          code |-> <<Preamble, ParamHeader>>
            \o ParamSection(st, problem_info)
            \o <<VarHeader>>
            \o VarSection(st)
            \o <<ConsHeader>>
            \o ConstraintSection(st)
            \o <<ObjHeader, st["objective"]["code"], SolveHeader, SolveCall,
                 OutputHeader, PrintObjective, EmitResult>>]

\* ------------------------------------------------------------------
\* Problem States handed to generate_code (section 3 of the data model):
\* `parameters` and `variables` are insertion-ordered mappings, kept as the
\* sequence of their entries; a constraint and the objective are mappings
\* from field name to text.

ParamPool == <<"c", "d", "e", "f">>
VarPool == <<"x", "y", "z", "w">>
SymbolNames == Range(ParamPool) \cup Range(VarPool)
ParamShapes == {<<>>, <<2, 3>>}
\* variable types, as the formulation service spells them
Continuous == <<"c", "o", "n", "t", "i", "n", "u", "o", "u", "s">>
Integer == <<"i", "n", "t", "e", "g", "e", "r">>
Binary == <<"b", "i", "n", "a", "r", "y">>
BinaryCapitalized == <<"B", "i", "n", "a", "r", "y">>
VarKinds == {[type |-> Continuous, shape |-> <<>>],
             [type |-> Binary, shape |-> <<>>],
             [type |-> BinaryCapitalized, shape |-> <<>>],
             [type |-> Integer, shape |-> <<3>>]}

\* code fragments, as the code stages return them
ConsFragX == <<"model.addConstr(", "x", " <= ", "1", ")\n">>
ConsFragY == <<"model.addConstr(", "y", " >= ", "c", ")\n">>
ObjFragX == <<"model.setObjective(", "c", " * ", "x", ", GRB.MAXIMIZE)\n">>
ObjFragY == <<"model.setObjective(", "c", " * ", "y", ", GRB.MAXIMIZE)\n">>

\* the symbols a fragment references
Symbols(frag) == Range(frag) \cap SymbolNames

ParamEntry(sym, shape) ==
    [symbol |-> sym, shape |-> shape, definition |-> "definition of " \o sym,
     value |-> <<>>]
VarEntry(sym, kind) ==
    [symbol |-> sym, shape |-> kind.shape, type |-> kind.type,
     definition |-> "definition of " \o sym]

ParamLists ==
    UNION {{[i \in 1..n |-> ParamEntry(ParamPool[i], sh[i])] :
                sh \in [1..n -> ParamShapes]} : n \in 0..MaxParams}
VarLists ==
    UNION {{[i \in 1..n |-> VarEntry(VarPool[i], k[i])] :
                k \in [1..n -> VarKinds]} : n \in 0..MaxVars}
ConsLists ==
    UNION {{[i \in 1..n |-> [description |-> <<"constraint ", Digits[i + 1]>>,
                             code |-> fr[i]]] :
                fr \in [1..n -> {ConsFragX, ConsFragY}]} : n \in 0..MaxCons}
Objectives ==
    {[description |-> <<"maximize profit">>, code |-> fr] : fr \in {ObjFragX, ObjFragY}}

GenStates ==
    {[k \in {"description", "parameters", "variables", "constraints", "objective"} |->
        CASE k = "description" -> <<"a problem">>
          [] k = "parameters" -> ps
          [] k = "variables" -> vs
          [] k = "constraints" -> cs
          [] k = "objective" -> ob] :
     ps \in ParamLists, vs \in VarLists, cs \in ConsLists, ob \in Objectives}

\* f without its field k
Without(f, k) == [x \in DOMAIN f \ {k} |-> f[x]]

\* states in which one entry lacks a field that generate_code reads
IncompleteBase ==
    [k \in {"description", "parameters", "variables", "constraints", "objective"} |->
        CASE k = "description" -> <<"a problem">>
          [] k = "parameters" -> <<ParamEntry("c", <<>>)>>
          [] k = "variables" -> <<VarEntry("x", [type |-> Binary, shape |-> <<>>])>>
          [] k = "constraints" -> <<[description |-> <<"constraint ", "1">>,
                                     code |-> ConsFragX]>>
          [] k = "objective" -> [description |-> <<"maximize profit">>,
                                 code |-> ObjFragX]]
IncompleteStates ==
    {[IncompleteBase EXCEPT !["parameters"] = <<Without(@[1], k)>>] :
        k \in {"shape", "definition"}}
    \cup {[IncompleteBase EXCEPT !["variables"] = <<Without(@[1], k)>>] :
        k \in {"shape", "type", "definition"}}

\* what problem_info.json may hold beside a state: nothing (no file), a
\* document without "parameters", ground truth for the first parameter, or a
\* ground-truth entry that has no description
GroundTruth(ps) ==
    IF ps = <<>> THEN <<>>
    ELSE <<[symbol |-> ps[1]["symbol"], shape |-> <<5>>,
            description |-> "ground truth of " \o ps[1]["symbol"]]>>
GroundTruthBare(ps) ==
    IF ps = <<>> THEN <<>>
    ELSE <<[symbol |-> ps[1]["symbol"], shape |-> <<5>>]>>
Infos(st) ==
    {<<>>, <<[parameters |-> <<>>]>>,
     <<[parameters |-> <<GroundTruth(st["parameters"])>>]>>,
     <<[parameters |-> <<GroundTruthBare(st["parameters"])>>]>>}

BatchIdle ==
    /\ cfg = [num_workers |-> 1]
    /\ dirs = <<>>
    /\ env = [stale |-> {}]
    /\ pc = <<>> /\ state = <<>> /\ fs = <<>> /\ trace = <<>>
    /\ outcome = <<>> /\ execEnd = <<>>
    /\ batch = "idle" /\ results = <<>>
GenIdle == gState = <<>> /\ gInfo = <<>> /\ gOut = <<>>
EmitIdle ==
    /\ mPc = "idle" /\ mStatus = 0 /\ mSolCount = 0 /\ mObjVal = 0
    /\ mFile = <<>> /\ mExc = ""

InitGen ==
    /\ gState \in GenStates \cup IncompleteStates
    /\ gInfo \in Infos(gState)
    /\ gOut = <<>>
    /\ BatchIdle /\ EmitIdle

\* one call generate_code(state, run_dir, problem_dir=dir)
Synthesize ==
    /\ gOut = <<>>
    /\ gOut' = <<generate_code(gState, gInfo)>>
    /\ UNCHANGED <<gState, gInfo, batchVars, emitVars>>

NextGen == Synthesize
SpecGen == InitGen /\ [][NextGen]_vars

\* ------------------------------------------------------------------
\* Properties of generate_code (checked under SpecGen)

Synthesized == gOut # <<>> /\ gOut[1].err = ""
Positions(code, piece) == {i \in DOMAIN code : code[i] = piece}
Pos(code, piece) == CHOOSE i \in Positions(code, piece) : TRUE
DigitTokens(line) == SelectSeq(line, LAMBDA t : t \in Range(Digits))

\* C8 as stated: the source text is a function of the Problem State alone:
\* whatever problem_info.json holds, the text is the one synthesized without it.
C8_TextFromStateAlone ==
    Synthesized => gOut[1].code = generate_code(gState, <<>>).code

\* C8 amended: the source text is determined by the Problem State and the
\* "parameters" of problem_info.json; for a state that has every field the
\* synthesizer reads, against the text synthesized from the state alone it has
\* the same pieces, and may differ only in the binding of a
\* parameter that problem_info.json lists, whose comment then carries the
\* ground-truth shape and description.
C8_TextFromStateAndInfo ==
    (Synthesized /\ ~GenKeyError(gState, <<>>)) =>
        LET code == gOut[1].code
            base == generate_code(gState, <<>>).code
            ps == gState["parameters"]
            first == Pos(code, ParamHeader)
        IN /\ Len(code) = Len(base)
           /\ \A i \in DOMAIN code :
                code[i] # base[i] =>
                    /\ i - first \in DOMAIN ps
                    /\ InfoEntry(gInfo, ps[i - first].symbol) # <<>>
                    /\ code[i] = get_param_code(ps[i - first].symbol,
                            InfoEntry(gInfo, ps[i - first].symbol)[1].shape,
                            InfoEntry(gInfo, ps[i - first].symbol)[1].description)

\* witness: a text was synthesized beside a problem_info.json whose ground
\* truth changed the binding of a listed parameter and of no other
C8_Witness ==
    /\ Synthesized
    /\ Len(gState["parameters"]) = 2
    /\ InfoEntry(gInfo, "c") # <<>>
    /\ gOut[1].code # generate_code(gState, <<>>).code

\* C9: the text holds, in this order, one binding per parameter, one
\* declaration per variable (addVar for an empty shape, addVars with the
\* dimensions otherwise), each constraint's fragment once in list order, the
\* objective fragment, and then the solve invocation.
C9_SectionOrder ==
    Synthesized =>
        LET code == gOut[1].code
            ps == gState["parameters"]
            vs == gState["variables"]
            cs == gState["constraints"]
            iP == Pos(code, ParamHeader)
            iV == Pos(code, VarHeader)
            iC == Pos(code, ConsHeader)
            iO == Pos(code, ObjHeader)
            iS == Pos(code, SolveCall)
        IN /\ \A h \in {ParamHeader, VarHeader, ConsHeader, ObjHeader, SolveCall} :
                Cardinality(Positions(code, h)) = 1
           /\ iP < iV /\ iV < iC /\ iC < iO /\ iO < iS
           /\ iV - iP - 1 = Len(ps)
           /\ \A k \in DOMAIN ps :
                /\ code[iP + k][1] = ps[k].symbol
                /\ code[iP + k][2] = " = data[\""
                /\ code[iP + k][3] = ps[k].symbol
           /\ iC - iV - 1 = Len(vs)
           /\ \A k \in DOMAIN vs :
                /\ code[iV + k][1] = vs[k].symbol
                /\ code[iV + k][2] = IF vs[k].shape = <<>>
                                     THEN " = model.addVar(vtype=GRB."
                                     ELSE " = model.addVars("
                /\ DigitTokens(code[iV + k]) =
                      Flatten([d \in DOMAIN vs[k].shape |-> Str(vs[k].shape[d])])
           /\ iO - iC - 1 = Len(cs)
           /\ \A k \in DOMAIN cs : code[iC + k] = cs[k]["code"]
           /\ code[iO + 1] = gState["objective"]["code"]
           /\ iS > iO + 1

\* witness: a text synthesized from a scalar and an indexed variable and two
\* constraints with different fragments
C9_Witness ==
    /\ Synthesized
    /\ Len(gState["variables"]) = 2
    /\ gState["variables"][1].shape = <<>>
    /\ gState["variables"][2].shape # <<>>
    /\ Len(gState["constraints"]) = 2
    /\ gState["constraints"][1]["code"] # gState["constraints"][2]["code"]
    /\ Len(gState["parameters"]) = 1

\* ------------------------------------------------------------------
\* The result-emission section that generate_code appends to every program
\* (src/generate_code.py lines 80-97), run by the Python interpreter against
\* the solver binding.

GRB_OPTIMAL == 2
Statuses == GRB_OPTIMAL..MaxStatus
\* INFEASIBLE and INF_OR_UNBD: the solver holds no solution
NoSolutionStatuses == {3, 4}

\* Python values: an int, a float (here with an integral value) or a str
PyInt(n) == [type |-> "int", n |-> n, text |-> <<>>]
PyFloat(n) == [type |-> "float", n |-> n, text |-> <<>>]
\* str(v)
PyStr(v) == [type |-> "str", n |-> 0,
             text |-> IF v.type = "str" THEN v.text
                      ELSE IF v.type = "float" THEN Str(v.n) \o <<".", "0">>
                      ELSE Str(v.n)]

\* f.write(v) on a text file opened with "w": the text written, or TypeError
\* when v is not a str (the file is left as open() truncated it)
FileWrite(v) ==
    IF v.type = "str" THEN [err |-> "", file |-> <<v.text>>]
    ELSE [err |-> "TypeError", file |-> <<<<>>>>]

StaleOutput == <<"7", ".", "0">>

InitEmit ==
    /\ mPc = "optimize"
    /\ mStatus = 0 /\ mSolCount = 0 /\ mObjVal = 0
    /\ mFile \in {<<>>, <<StaleOutput>>}
    /\ mExc = ""
    /\ BatchIdle /\ GenIdle

\* model.optimize() (line 81) returns with a terminal status
Optimize ==
    /\ mPc = "optimize"
    /\ \E st \in Statuses, n \in 0..1, v \in 0..MaxObjVal :
        /\ st = GRB_OPTIMAL => n = 1
        /\ st \in NoSolutionStatuses => n = 0
        /\ n = 0 => v = 0
        /\ mStatus' = st /\ mSolCount' = n /\ mObjVal' = v
    /\ mPc' = "print"
    /\ UNCHANGED <<mFile, mExc, batchVars, genVars>>

\* print("Optimal Objective Value: ", model.objVal) (line 84): reading objVal
\* raises AttributeError when the solver holds no solution
PrintObjVal ==
    /\ mPc = "print"
    /\ IF mSolCount = 0
       THEN mExc' = "AttributeError" /\ mPc' = "exit"
       ELSE mExc' = mExc /\ mPc' = "emit"
    /\ UNCHANGED <<mStatus, mSolCount, mObjVal, mFile, batchVars, genVars>>

\* the if/else of lines 89-95
WriteOutput ==
    /\ mPc = "emit"
    /\ LET w == IF mStatus = GRB_OPTIMAL
                THEN FileWrite(PyStr(PyFloat(mObjVal)))
                ELSE FileWrite(PyInt(mStatus))
       IN mFile' = w.file /\ mExc' = w.err
    /\ mPc' = "exit"
    /\ UNCHANGED <<mStatus, mSolCount, mObjVal, batchVars, genVars>>

NextEmit == Optimize \/ PrintObjVal \/ WriteOutput
SpecEmit == InitEmit /\ [][NextEmit]_vars

\* C3: once the program has ended, output_solution.txt holds the objective
\* value when the status is optimal and the status token for every other
\* terminal status.
C3_OutputAlwaysWritten ==
    mPc = "exit" =>
        /\ mFile # <<>>
        /\ mStatus = GRB_OPTIMAL => mFile[1] = PyStr(PyFloat(mObjVal)).text
        /\ mStatus # GRB_OPTIMAL => mFile[1] = PyStr(PyInt(mStatus)).text

\* ------------------------------------------------------------------
\* src/main.py: process_single_dir and the batch modes of __main__

Labels == <<"state_1_params.json", "state_2_objective.json",
            "state_3_constraints.json", "state_4_constraints_modeled.json",
            "state_5_objective_modeled.json", "state_6_code.json">>
Files == Range(Labels) \cup {"data.json", "code.py"}

Date == "20261030"
MODEL == "o4-mini"
GitHash == "0a1b2c3"
\* --devmode, at its default
DEV_MODE == 1

DirPath(dir) == <<"dataset/ComplexLP/">> \o Str(dir)

\* a bug: the run directory is not placed under the problem directory
RunDirShared(dir) == <<"run_", Date, "_", MODEL>>

\* run_dir of lines 31-36
RunDir(dir) ==
    IF DEV_MODE # 0
    THEN DirPath(dir) \o <<"/run_", Date, "_", MODEL>>
    ELSE DirPath(dir) \o <<"/run_", Date, "_", MODEL, "_", GitHash, "_RAG">>

Stages == <<"create", "objective", "constraints", "cform", "oform", "codes",
            "generate", "execute">>
StageIndex(s) == CHOOSE i \in DOMAIN Stages : Stages[i] = s

\* a bug: the code stage is run before objective formulation
AfterSwapped(stage) ==
    CASE stage = "cform" -> "codes"
      [] stage = "codes" -> "oform"
      [] stage = "oform" -> "generate"
      [] stage = "execute" -> "done"
      [] OTHER -> Stages[StageIndex(stage) + 1]

\* the statement order of process_single_dir: what follows each stage
After(stage) ==
    IF stage = "execute" THEN "done" ELSE Stages[StageIndex(stage) + 1]

\* a bug: a stage loads the checkpoint it is about to write
InLabelNext(stage) == Labels[StageIndex(stage)]

\* the checkpoint each stage loads (lines 66, 81, 96, 112, 129, 145)
InLabel(stage) == Labels[StageIndex(stage) - 1]

\* a bug: the stage's result becomes the whole state
SetItemFresh(st, key, v) == [k \in {key} |-> v]

\* state[key] = v
SetItem(st, key, v) ==
    [k \in DOMAIN st \cup {key} |-> IF k = key THEN v ELSE st[k]]

\* a bug: the handler lets the exception escape
ExceptReraise(dir, e) ==
    [kind |-> "raised", marker |-> "", dir |-> dir, detail |-> <<e>>]

\* except Exception as e: return f"Error processing {dir}: {str(e)}"
Except(dir, e) ==
    [kind |-> "returned", marker |-> "Error processing ", dir |-> dir,
     detail |-> <<": ", e>>]

\* return f"Successfully processed {dir}"
Success(dir) ==
    [kind |-> "returned", marker |-> "Successfully processed ", dir |-> dir,
     detail |-> <<>>]

\* the string a returned outcome is
Text(o) == <<o.marker>> \o DirPath(o.dir) \o o.detail

\* json.dump(data, f) of lines 54-60: the document, one entry per parameter
\* that has a value, between its braces
DataJson(st) ==
    LET ps == st["parameters"]
        valued == SelectSeq(ps, LAMBDA v : v.value # <<>>)
    IN <<"{">> \o [i \in DOMAIN valued |->
                     [symbol |-> valued[i].symbol, value |-> valued[i].value[1]]]
       \o <<"}">>

\* ---- collaborators whose code is outside src/ (sections 4.1, 4.2, 4.4) ----

\* create_state(dir, run_dir, model): description and parameters of the problem
create_state(dir) ==
    [description |-> <<"description of problem ">> \o Str(dir),
     parameters |->
        IF dir % 2 = 1
        THEN <<[symbol |-> "c", shape |-> <<>>, definition |-> "unit profit",
                value |-> <<84>>]>>
        ELSE <<[symbol |-> "c", shape |-> <<>>, definition |-> "unit profit",
                value |-> <<84>>],
               [symbol |-> "d", shape |-> <<>>, definition |-> "demand",
                value |-> <<>>]>>]

\* save_state(state, path) / load_state(path): exact round trip, atomic replace
save_state(fsys, rd, label, st) ==
    [fsys EXCEPT ![rd] = [@ EXCEPT ![label] = <<st>>]]
load_state(fsys, rd, label) == fsys[rd][label]

get_objective(description, parameters) ==
    [description |-> <<"maximize profit">>]

get_constraints(description, parameters) ==
    <<[description |-> <<"constraint 1">>], [description |-> <<"constraint 2">>]>>

\* how the formulation services answer for a problem: on the problems whose
\* description ends in an even digit constraint formulation returns fewer
\* constraints than it was given and the code stage references an undeclared
\* symbol; on the others every constraint comes back and the fragments use
\* declared symbols only
ServiceBehaviour(description) ==
    IF description[Len(description)] \in {"0", "2", "4", "6", "8"}
    THEN "unfaithful" ELSE "faithful"

\* returns (constraints, variables); the service may return fewer constraints
\* than it was given
get_constraint_formulations(description, parameters, constraints) ==
    LET kept == IF ServiceBehaviour(description) = "unfaithful"
                THEN SubSeq(constraints, 1, 1) ELSE constraints
    IN <<[i \in DOMAIN kept |->
            SetItem(kept[i], "formulation", <<"x <= 1">>)],
         <<VarEntry("x", [type |-> Binary, shape |-> <<>>])>>>>

get_objective_formulation(description, parameters, variables, objective) ==
    SetItem(objective, "formulation", <<"max c x">>)

\* returns (constraints, objective) with a code fragment each; the objective
\* fragment may reference a symbol that was never declared
get_codes(description, parameters, variables, constraints, objective) ==
    <<[i \in DOMAIN constraints |-> SetItem(constraints[i], "code", ConsFragX)],
      SetItem(objective, "code",
              IF ServiceBehaviour(description) = "unfaithful" THEN ObjFragY
              ELSE ObjFragX)>>

\* terminal states of the execute-and-debug loop when it returns
ExecTerminal == {"SUCCESS", "SOLVER_INFEASIBLE", "FAILED"}

\* problem_info.json of a problem directory, as generate_code reads it
ProblemInfo(dir) ==
    IF dir % 2 = 1 THEN <<>>
    ELSE <<[parameters |-> <<<<[symbol |-> "c", shape |-> <<>>,
                                description |-> "profit per unit"]>>>>]>>

\* what an earlier run with the same date and model left in a run directory
StaleState ==
    [k \in {"description", "parameters", "objective", "constraints", "variables"} |->
        CASE k = "description" -> <<"description of an earlier run">>
          [] k = "parameters" -> <<>>
          [] k = "objective" -> [description |-> <<"old">>, formulation |-> <<"old">>,
                                 code |-> ObjFragX]
          [] k = "constraints" -> <<>>
          [] k = "variables" -> <<VarEntry("x", [type |-> Binary, shape |-> <<>>])>>]
StaleDir ==
    [f \in Files |-> IF f = "data.json" THEN <<DataJson(StaleState)>>
                     ELSE IF f = "code.py" THEN <<<<>>>>
                     ELSE <<StaleState>>]
EmptyDir == [f \in Files |-> <<>>]
\* the problems that were already run on this date with this model: the
\* even-numbered ones
HasEarlierRun(dir) == dir % 2 = 0

\* ---- the batch ----

Dirs == Range(dirs)
Running == {d \in Dirs : pc[d] \notin {"queued", "done"}}
NextQueued == {d \in Dirs : pc[d] = "queued"
                            /\ \A i, j \in DOMAIN dirs :
                                (dirs[j] = d /\ i < j) => pc[dirs[i]] # "queued"}

Init ==
    /\ cfg \in [num_workers : {1, MaxWorkers}]
    /\ dirs = [i \in 1..NumDirs |-> i]
    /\ env = [stale |-> {d \in 1..NumDirs : HasEarlierRun(d)}]
    /\ pc = [d \in Dirs |-> "queued"]
    /\ state = [d \in Dirs |-> <<>>]
    /\ fs = [rd \in {RunDir(d) : d \in Dirs} |->
                IF \E d \in env.stale : RunDir(d) = rd THEN StaleDir ELSE EmptyDir]
    /\ trace = [d \in Dirs |-> <<>>]
    /\ outcome = [d \in Dirs |-> <<>>]
    /\ execEnd = [d \in Dirs |-> ""]
    /\ batch = "running"
    /\ results = <<>>
    /\ GenIdle /\ EmitIdle

\* an exception e reaches the handler of process_single_dir (lines 151-152)
Raise(d, e, events) ==
    /\ pc' = [pc EXCEPT ![d] = "done"]
    /\ outcome' = [outcome EXCEPT ![d] = <<Except(d, e)>>]
    /\ trace' = [trace EXCEPT ![d] = @ \o events \o <<<<"fail", e>>>>]

\* position of a run that is about to save the checkpoint of `stage`
SavePc(stage) ==
    CASE stage = "create" -> "save create"
      [] stage = "objective" -> "save objective"
      [] stage = "constraints" -> "save constraints"
      [] stage = "cform" -> "save cform"
      [] stage = "oform" -> "save oform"
      [] stage = "codes" -> "save codes"
SavingStages == {"create", "objective", "constraints", "cform", "oform", "codes"}

\* the checkpoint each stage saves (lines 51, 78, 93, 109, 125, 141)
OutLabel(stage) == Labels[StageIndex(stage)]

\* executor.map hands the next directory to a free worker (lines 190-191,
\* 211-212)
StartTask(d) ==
    /\ d \in NextQueued
    /\ Cardinality(Running) < cfg.num_workers
    /\ pc' = [pc EXCEPT ![d] = "create"]
    /\ UNCHANGED <<cfg, dirs, env, state, fs, trace, outcome, execEnd, batch,
                   results, genVars, emitVars>>

\* lines 24-49: the run directory is made and create_state returns
CreateRun(d) ==
    /\ pc[d] = "create"
    /\ \E err \in {"", "OSError"} :
        IF err # ""
        THEN Raise(d, err, <<>>) /\ UNCHANGED state
        ELSE /\ state' = [state EXCEPT ![d] = create_state(d)]
             /\ pc' = [pc EXCEPT ![d] = SavePc("create")]
             /\ UNCHANGED <<trace, outcome>>
    /\ UNCHANGED <<cfg, dirs, env, fs, execEnd, batch, results, genVars, emitVars>>

\* save_state(state, <checkpoint of the stage>) (lines 51, 78, 93, 109, 125,
\* 141): the checkpoint is written, or the write fails and `state` keeps what
\* the stage assigned
SaveState(d) ==
    /\ \E stage \in SavingStages :
        /\ pc[d] = SavePc(stage)
        /\ \E err \in {"", "OSError"} :
            IF err # ""
            THEN Raise(d, err, <<>>) /\ UNCHANGED fs
            ELSE /\ fs' = save_state(fs, RunDir(d), OutLabel(stage), state[d])
                 /\ trace' = [trace EXCEPT ![d] =
                                @ \o <<<<"save", OutLabel(stage)>>>>]
                 /\ pc' = [pc EXCEPT ![d] =
                                IF stage = "create" THEN "data" ELSE After(stage)]
                 /\ UNCHANGED outcome
    /\ UNCHANGED <<cfg, dirs, env, state, execEnd, batch, results, genVars,
                   emitVars>>

\* a file that open(path, "w") has just created or truncated
EmptyFile == <<<<>>>>
\* a file whose write went through
Whole(text) == <<text>>
\* a file that holds only part of what is being written to it, while the
\* write is under way or after it stopped: a proper, non-empty prefix of
\* `text`, ending anywhere (at a piece boundary, inside a piece, inside a
\* line). The value stands for every such prefix; no step of the program
\* reads the file before the write is complete
CutOff(text) == <<text, "cut off">>

\* lines 54-59: the data dictionary is built and open(..., "w") creates or
\* truncates data.json, or fails and leaves the directory as it was
OpenData(d) ==
    /\ pc[d] = "data"
    /\ \E err \in {"", "OSError"} :
        IF err # ""
        THEN Raise(d, err, <<>>) /\ UNCHANGED fs
        ELSE /\ fs' = [fs EXCEPT ![RunDir(d)] = [@ EXCEPT !["data.json"] = EmptyFile]]
             /\ pc' = [pc EXCEPT ![d] = "dump"]
             /\ UNCHANGED <<trace, outcome>>
    /\ UNCHANGED <<cfg, dirs, env, state, execEnd, batch, results, genVars,
                   emitVars>>

\* line 60 to the end of the with-block: json.dump writes the document into
\* the open file, chunk by chunk, and the file is closed. A step writes a
\* chunk with more to come (the run stays at line 60 with a prefix of the
\* document in the file), writes all that is left, or fails before writing
\* anything more or after writing part of what is left.
WriteData(d) ==
    /\ pc[d] = "dump"
    /\ LET rd == RunDir(d)
           text == DataJson(state[d])
           put(file) == [fs EXCEPT ![rd] = [@ EXCEPT !["data.json"] = file]]
       IN \E err \in {"", "chunk", "unwritten", "cut off"} :
            /\ err = "chunk" => fs[rd]["data.json"] = EmptyFile
            /\ fs' = CASE err = "unwritten" -> fs
                       [] err \in {"chunk", "cut off"} -> put(CutOff(text))
                       [] OTHER -> put(Whole(text))
            /\ IF err = "chunk"
               THEN UNCHANGED <<pc, trace, outcome>>
               ELSE IF err # ""
               THEN Raise(d, "OSError", <<>>)
               ELSE /\ pc' = [pc EXCEPT ![d] = "logger"]
                    /\ UNCHANGED <<trace, outcome>>
    /\ UNCHANGED <<cfg, dirs, env, state, execEnd, batch, results, genVars,
                   emitVars>>

\* lines 62-63: Logger(...) and logger.reset() set the logger up, or fail,
\* with data.json whole in the run directory
SetUpLogger(d) ==
    /\ pc[d] = "logger"
    /\ \E err \in {"", "OSError"} :
        IF err # ""
        THEN Raise(d, err, <<>>)
        ELSE /\ pc' = [pc EXCEPT ![d] = After("create")]
             /\ UNCHANGED <<trace, outcome>>
    /\ UNCHANGED <<cfg, dirs, env, state, fs, execEnd, batch, results, genVars,
                   emitVars>>

\* a bug: the extracted objective text is stored under the wrong key
ObjectiveResultWrongKey(st) ==
    SetItem(st, "description",
            get_objective(st["description"], st["parameters"])["description"])

\* the state each stage leaves in `state`, from the state st it loaded
ObjectiveResult(st) ==
    SetItem(st, "objective", get_objective(st["description"], st["parameters"]))

ConstraintsResult(st) ==
    SetItem(st, "constraints", get_constraints(st["description"], st["parameters"]))

ConstraintFormulationResult(st) ==
    LET r == get_constraint_formulations(st["description"], st["parameters"],
                                         st["constraints"])
    IN SetItem(SetItem(st, "constraints", r[1]), "variables", r[2])

ObjectiveFormulationResult(st) ==
    SetItem(st, "objective",
            get_objective_formulation(st["description"], st["parameters"],
                                      st["variables"], st["objective"]))

CodesResult(st) ==
    LET r == get_codes(st["description"], st["parameters"], st["variables"],
                       st["constraints"], st["objective"])
    IN SetItem(SetItem(st, "constraints", r[1]), "objective", r[2])

StageResult(stage, st) ==
    CASE stage = "objective" -> ObjectiveResult(st)
      [] stage = "constraints" -> ConstraintsResult(st)
      [] stage = "cform" -> ConstraintFormulationResult(st)
      [] stage = "oform" -> ObjectiveFormulationResult(st)
      [] stage = "codes" -> CodesResult(st)

\* what can happen to a stage that loads `file` and reads `needs` of it
StageErrors(file, needs) ==
    IF file = <<>> THEN {"CheckpointNotFound"}
    ELSE {"CheckpointCorrupt"} \cup
         (IF needs \subseteq DOMAIN file[1] THEN {"", "StageError"} ELSE {"KeyError"})

\* what a stage reads of the state it loaded
Needs(stage) ==
    CASE stage = "objective" -> {"description", "parameters"}
      [] stage = "constraints" -> {"description", "parameters"}
      [] stage = "cform" -> {"description", "parameters", "constraints"}
      [] stage = "oform" -> {"description", "parameters", "variables", "objective"}
      [] stage = "codes" -> {"description", "parameters", "variables", "constraints",
                             "objective"}

\* one stage of lines 66-141 up to its save: load the previous checkpoint,
\* call the stage, assign its result to `state`. The checkpoint is saved by
\* the step that follows (SaveState), so other workers run in between.
Stage(d, stage) ==
    /\ pc[d] = stage
    /\ LET file == load_state(fs, RunDir(d), InLabel(stage))
       IN \E err \in StageErrors(file, Needs(stage)) :
            IF err # ""
            THEN /\ Raise(d, err, IF err = "StageError"
                                  THEN <<<<"run", stage>>>> ELSE <<>>)
                 /\ state' = [state EXCEPT ![d] =
                                IF err \in {"StageError", "KeyError"}
                                THEN file[1] ELSE @]
            ELSE /\ state' = [state EXCEPT ![d] = StageResult(stage, file[1])]
                 /\ trace' = [trace EXCEPT ![d] = @ \o <<<<"run", stage>>>>]
                 /\ pc' = [pc EXCEPT ![d] = SavePc(stage)]
                 /\ UNCHANGED outcome
    /\ UNCHANGED <<cfg, dirs, env, fs, execEnd, batch, results, genVars, emitVars>>

\* lines 66-77
GetObjective(d) == Stage(d, "objective")

\* lines 81-92
GetConstraints(d) == Stage(d, "constraints")

\* lines 96-108
GetConstraintFormulations(d) == Stage(d, "cform")

\* lines 112-124
GetObjectiveFormulation(d) == Stage(d, "oform")

\* lines 129-140
GetCodes(d) == Stage(d, "codes")

\* lines 145-146 up to src/generate_code.py line 101: state_6_code.json is
\* loaded, generate_code reads problem_info.json when the problem has one
\* (lines 44-47), builds the text (lines 49-99) and open(..., "w") creates or
\* truncates code.py (line 101). A missing or unreadable checkpoint, a failing
\* open() of problem_info.json, a missing key and a failing open() of code.py,
\* met in this order, leave code.py as it was.
GenerateCode(d) ==
    /\ pc[d] = "generate"
    /\ LET rd == RunDir(d)
           file == load_state(fs, rd, InLabel("generate"))
       IN \E err \in (IF file = <<>> THEN {"CheckpointNotFound"}
                      ELSE {"CheckpointCorrupt", "", "open"}
                           \cup (IF ProblemInfo(d) # <<>> THEN {"info"} ELSE {})) :
            IF err \in {"CheckpointNotFound", "CheckpointCorrupt"}
            THEN Raise(d, err, <<>>) /\ UNCHANGED <<state, fs>>
            ELSE LET g == generate_code(file[1], ProblemInfo(d))
                 IN /\ state' = [state EXCEPT ![d] = file[1]]
                    /\ IF err = "info"
                       THEN Raise(d, "OSError", <<<<"run", "generate">>>>)
                            /\ UNCHANGED fs
                       ELSE IF g.err # ""
                       THEN Raise(d, g.err, <<<<"run", "generate">>>>)
                            /\ UNCHANGED fs
                       ELSE IF err = "open"
                       THEN Raise(d, "OSError", <<<<"run", "generate">>>>)
                            /\ UNCHANGED fs
                       ELSE /\ fs' = [fs EXCEPT ![rd] =
                                        [@ EXCEPT !["code.py"] = EmptyFile]]
                            /\ trace' = [trace EXCEPT ![d] =
                                            @ \o <<<<"run", "generate">>>>]
                            /\ pc' = [pc EXCEPT ![d] = "write"]
                            /\ UNCHANGED outcome
    /\ UNCHANGED <<cfg, dirs, env, execEnd, batch, results, genVars, emitVars>>

\* src/generate_code.py line 102: f.write(code_str) writes the text into the
\* open file, chunk by chunk when it is long, and generate_code returns. A
\* step writes a chunk with more to come (the run stays at line 102 with a
\* prefix of the text in the file), writes all that is left, or fails before
\* writing anything more or after writing part of what is left.
WriteCode(d) ==
    /\ pc[d] = "write"
    /\ LET rd == RunDir(d)
           g == generate_code(state[d], ProblemInfo(d))
           put(file) == [fs EXCEPT ![rd] = [@ EXCEPT !["code.py"] = file]]
       IN \E err \in {"", "chunk", "unwritten", "cut off"} :
            /\ err = "chunk" => fs[rd]["code.py"] = EmptyFile
            /\ fs' = CASE err = "unwritten" -> fs
                       [] err \in {"chunk", "cut off"} -> put(CutOff(g.code))
                       [] OTHER -> put(Whole(g.code))
            /\ IF err = "chunk"
               THEN UNCHANGED <<pc, trace, outcome>>
               ELSE IF err # ""
               THEN Raise(d, "OSError", <<>>)
               ELSE /\ pc' = [pc EXCEPT ![d] = After("generate")]
                    /\ UNCHANGED <<trace, outcome>>
    /\ UNCHANGED <<cfg, dirs, env, state, execEnd, batch, results, genVars,
                   emitVars>>

\* lines 147-150: execute_and_debug runs to a terminal state and returns, or
\* raises; its return value is not used
ExecuteAndDebug(d) ==
    /\ pc[d] = "execute"
    /\ \E end \in ExecTerminal \cup {"raise"} :
        IF end = "raise"
        THEN /\ Raise(d, "ExecutionError", <<<<"run", "execute">>>>)
             /\ UNCHANGED execEnd
        ELSE /\ execEnd' = [execEnd EXCEPT ![d] = end]
             /\ trace' = [trace EXCEPT ![d] = @ \o <<<<"run", "execute">>>>]
             /\ outcome' = [outcome EXCEPT ![d] = <<Success(d)>>]
             /\ pc' = [pc EXCEPT ![d] = After("execute")]
    /\ UNCHANGED <<cfg, dirs, env, state, fs, batch, results, genVars, emitVars>>

\* results = list(executor.map(...)) (lines 190-191, 211-212): the outcomes in
\* the order of dirs; a task that raised makes the call raise
CollectResults ==
    /\ batch = "running"
    /\ \A d \in Dirs : pc[d] = "done"
    /\ IF \E d \in Dirs : outcome[d][1].kind = "raised"
       THEN batch' = "raised" /\ results' = <<>>
       ELSE /\ batch' = "returned"
            /\ results' = [i \in DOMAIN dirs |-> Text(outcome[dirs[i]][1])]
    /\ UNCHANGED <<cfg, dirs, env, pc, state, fs, trace, outcome, execEnd,
                   genVars, emitVars>>

Step(d) ==
    \/ StartTask(d)
    \/ CreateRun(d)
    \/ SaveState(d)
    \/ OpenData(d)
    \/ WriteData(d)
    \/ SetUpLogger(d)
    \/ GetObjective(d)
    \/ GetConstraints(d)
    \/ GetConstraintFormulations(d)
    \/ GetObjectiveFormulation(d)
    \/ GetCodes(d)
    \/ GenerateCode(d)
    \/ WriteCode(d)
    \/ ExecuteAndDebug(d)

Next ==
    \/ \E d \in Dirs : StartTask(d)
    \/ \E d \in Dirs : CreateRun(d)
    \/ \E d \in Dirs : SaveState(d)
    \/ \E d \in Dirs : OpenData(d)
    \/ \E d \in Dirs : WriteData(d)
    \/ \E d \in Dirs : SetUpLogger(d)
    \/ \E d \in Dirs : GetObjective(d)
    \/ \E d \in Dirs : GetConstraints(d)
    \/ \E d \in Dirs : GetConstraintFormulations(d)
    \/ \E d \in Dirs : GetObjectiveFormulation(d)
    \/ \E d \in Dirs : GetCodes(d)
    \/ \E d \in Dirs : GenerateCode(d)
    \/ \E d \in Dirs : WriteCode(d)
    \/ \E d \in Dirs : ExecuteAndDebug(d)
    \/ CollectResults
Spec == Init /\ [][Next]_vars

\* ------------------------------------------------------------------
\* Properties of the batch (checked under Spec)

Events(d) == Range(trace[d])
Saved(d) == {e[2] : e \in {e \in Events(d) : e[1] = "save"}}
Ran(d, stage) == <<"run", stage>> \in Events(d)
\* this run has saved checkpoint k
HasSaved(d, k) ==
    \E i \in DOMAIN trace[d] : trace[d][i][1] = "save" /\ trace[d][i][2] = Labels[k]

\* C1: process_single_dir never raises, it returns the success marker or an
\* error string; the batch call does not raise and yields one outcome per
\* directory, in order; and while a directory is unfinished some unfinished
\* directory can take its next step, whatever happened to the others.
C1_NeverRaises ==
    /\ \A d \in Dirs :
        pc[d] = "done" =>
            /\ outcome[d] # <<>>
            /\ outcome[d][1].kind = "returned"
            /\ outcome[d][1].marker \in {"Successfully processed ", "Error processing "}
    /\ batch # "raised"
    /\ batch = "returned" =>
            /\ Len(results) = Len(dirs)
            /\ \A i \in DOMAIN dirs : results[i] = Text(outcome[dirs[i]][1])
    /\ (\E d \in Dirs : pc[d] # "done") =>
            \E d \in Dirs : pc[d] # "done" /\ ENABLED Step(d)

\* witness: the batch returned with one directory failed and another succeeded
C1_Witness ==
    /\ batch = "returned"
    /\ \E d, q \in Dirs :
        /\ outcome[d][1].marker = "Error processing "
        /\ outcome[q][1].marker = "Successfully processed "

\* the symbols referenced by a fragment of st that st does not declare
Unresolved(st) ==
    LET declared == {st["parameters"][i].symbol : i \in DOMAIN st["parameters"]}
                    \cup {st["variables"][i].symbol : i \in DOMAIN st["variables"]}
        used == UNION ({Symbols(st["constraints"][i]["code"]) :
                            i \in DOMAIN st["constraints"]}
                       \cup {Symbols(st["objective"]["code"])})
    IN used \ declared

\* C2: when generate_code is called on a state with a fragment that references
\* an undeclared symbol it fails with UnresolvedSymbol naming the symbol and
\* execute_and_debug is never called; on a state whose fragments reference only
\* declared symbols it writes code.py. Read once the call has ended.
C2_UnresolvedSymbolCaught ==
    \A d \in Dirs :
        (/\ Ran(d, "generate") /\ pc[d] # "write"
         /\ ~GenKeyError(state[d], ProblemInfo(d))) =>
            IF Unresolved(state[d]) # {}
            THEN /\ pc[d] = "done"
                 /\ outcome[d][1].detail[2] = "UnresolvedSymbol"
                 /\ ~Ran(d, "execute")
            ELSE \/ fs[RunDir(d)]["code.py"] =
                        <<generate_code(state[d], ProblemInfo(d)).code>>
                 \/ <<"fail", "OSError">> \in Events(d)

\* C4: the values process_single_dir reports tell the terminal outcomes of
\* execute_and_debug apart: two runs that ended in different terminal states
\* do not report the same thing.
C4_OutcomeLegible ==
    \A d, q \in Dirs :
        (pc[d] = "done" /\ pc[q] = "done" /\ execEnd[d] # "" /\ execEnd[q] # ""
            /\ execEnd[d] # execEnd[q])
        => <<outcome[d][1].marker, outcome[d][1].detail>>
              # <<outcome[q][1].marker, outcome[q][1].detail>>

\* the checkpoints that must have been saved before a stage may start
C5_Before(stage) ==
    CASE stage = "objective" -> {Labels[1]}
      [] stage = "constraints" -> {Labels[1], Labels[2]}
      [] stage = "cform" -> {Labels[1], Labels[2], Labels[3]}
      [] stage = "oform" -> {Labels[1], Labels[2], Labels[3], Labels[4]}
      [] stage = "codes" -> {Labels[1], Labels[2], Labels[3], Labels[4], Labels[5]}
      [] OTHER -> Range(Labels)
\* the place of a stage in the fixed order
C5_Rank(stage) ==
    CASE stage = "objective" -> 1
      [] stage = "constraints" -> 2
      [] stage = "cform" -> 3
      [] stage = "oform" -> 4
      [] stage = "codes" -> 5
      [] stage = "generate" -> 6
      [] stage = "execute" -> 7

\* C5: in every run the stages start in the fixed order, each only after the
\* checkpoints of all earlier stages have been saved by this run, and nothing
\* runs after a failure.
C5_StagesSequential ==
    \A d \in Dirs :
        LET t == trace[d]
        IN \A i \in DOMAIN t :
            CASE t[i][1] = "run" ->
                    /\ \A l \in C5_Before(t[i][2]) :
                          \E j \in 1..(i - 1) : t[j][1] = "save" /\ t[j][2] = l
                    /\ \A j \in 1..(i - 1) :
                          t[j][1] = "run" => C5_Rank(t[j][2]) < C5_Rank(t[i][2])
              [] t[i][1] = "fail" -> i = Len(t)
              [] OTHER -> TRUE

\* witness: in a run directory that an earlier run had filled, objective
\* formulation, the code stage and synthesis have run, and another run failed
C5_Witness ==
    /\ \E d \in env.stale : Ran(d, "cform") /\ Ran(d, "oform") /\ Ran(d, "codes")
                            /\ Ran(d, "generate") /\ Ran(d, "execute")
    /\ \E d \in Dirs : trace[d] # <<>> /\ trace[d][Len(trace[d])][1] = "fail"
                       /\ Ran(d, "cform")

LoadingStages == {"objective", "constraints", "cform", "oform", "codes", "generate"}

\* C6: whenever a stage is about to load its checkpoint, the file holds
\* exactly the state this run saved last, in every interleaving of the workers.
C6_LoadsWhatWasSaved ==
    \A d \in Dirs :
        pc[d] \in LoadingStages =>
            load_state(fs, RunDir(d), InLabel(pc[d])) = <<state[d]>>

\* witness: two runs are between a save and the next load at the same time, one in
\* a run directory that holds checkpoints of an earlier run
C6_Witness ==
    \E d \in env.stale, q \in Dirs : d # q /\ pc[d] = "cform" /\ pc[q] = "codes"

\* this step changed something that belongs to the pipeline of directory d:
\* its run directory, its local state, its events, position or result
C7_Changed(d) ==
    \/ fs'[RunDir(d)] # fs[RunDir(d)]
    \/ pc'[d] # pc[d]
    \/ state'[d] # state[d]
    \/ trace'[d] # trace[d]
    \/ outcome'[d] # outcome[d]
    \/ execEnd'[d] # execEnd[d]

\* C7: the run directories of different problems are different directories,
\* and whatever a step changes of one directory's pipeline (its run directory,
\* local state, events, position, result) is changed by a step of that very
\* pipeline, which leaves what belongs to every other directory as it was.
C7_RunDirOwned ==
    [][/\ \A d, q \in Dirs : d # q => RunDir(d) # RunDir(q)
       /\ \A d \in Dirs :
            C7_Changed(d) => /\ Step(d)
                             /\ \A q \in Dirs \ {d} : ~C7_Changed(q)]_vars

\* witness: two workers are in the middle of a write at the same time, one
\* with part of data.json in its run directory, the other with part of code.py
C7_Witness ==
    \E d, q \in Dirs :
        /\ d # q
        /\ pc[d] = "dump"
        /\ fs[RunDir(d)]["data.json"] = CutOff(DataJson(state[d]))
        /\ pc[q] = "write"
        /\ fs[RunDir(q)]["code.py"] =
                CutOff(generate_code(state[q], ProblemInfo(q)).code)

\* every field of a is a field of b with the same value
Extends(b, a) == DOMAIN a \subseteq DOMAIN b /\ \A k \in DOMAIN a : b[k] = a[k]
\* the consecutive checkpoints this run has saved
C10_Pairs(d) ==
    {k \in 1..(Len(Labels) - 1) : HasSaved(d, k + 1) /\ HasSaved(d, k)}
Checkpoint(d, k) == fs[RunDir(d)][Labels[k]][1]

\* C10 as stated: between consecutive checkpoints every top-level field, every
\* constraint and every field of the objective is kept.
C10_AppendOnly ==
    \A d \in Dirs : \A k \in C10_Pairs(d) :
        LET a == Checkpoint(d, k)
            b == Checkpoint(d, k + 1)
        IN /\ DOMAIN a \subseteq DOMAIN b
           /\ "constraints" \in DOMAIN a =>
                \A i \in DOMAIN a["constraints"] :
                    \E j \in DOMAIN b["constraints"] :
                        Extends(b["constraints"][j], a["constraints"][i])
           /\ "objective" \in DOMAIN a => Extends(b["objective"], a["objective"])

\* C10 amended: between consecutive checkpoints every top-level field is kept.
C10_TopLevelAppendOnly ==
    \A d \in Dirs : \A k \in 1..(Len(Labels) - 1) :
        (HasSaved(d, k + 1) /\ HasSaved(d, k)) =>
            DOMAIN Checkpoint(d, k) \subseteq DOMAIN Checkpoint(d, k + 1)

\* witness: all six checkpoints of a run are saved, and constraint formulation
\* returned fewer constraints than it was given
C10_Witness ==
    \E d \in Dirs :
        /\ Saved(d) = Range(Labels)
        /\ Len(Checkpoint(d, 4)["constraints"]) < Len(Checkpoint(d, 3)["constraints"])

\* the parameters of b are those of a, with the same shape and definition
SameParameters(a, b) ==
    /\ Len(b["parameters"]) = Len(a["parameters"])
    /\ \A i \in DOMAIN a["parameters"] :
        /\ b["parameters"][i].symbol = a["parameters"][i].symbol
        /\ b["parameters"][i].shape = a["parameters"][i].shape
        /\ b["parameters"][i].definition = a["parameters"][i].definition

\* C11: in each of the checkpoints state_2 .. state_6 that a run has saved,
\* `description` and the shape and definition of every parameter are those of
\* state_1_params.json, and the only fields added are `objective`,
\* `constraints` and `variables`.
C11_DescriptionAndParametersKept ==
    \A d \in Dirs :
        HasSaved(d, 1) =>
            \A k \in 2..Len(Labels) :
                HasSaved(d, k) =>
                    LET a == Checkpoint(d, 1)
                        b == Checkpoint(d, k)
                    IN /\ {"description", "parameters"} \subseteq DOMAIN b
                       /\ b["description"] = a["description"]
                       /\ SameParameters(a, b)
                       /\ DOMAIN b \ DOMAIN a \subseteq
                            {"objective", "constraints", "variables"}

\* witness: a run in a directory that an earlier run had filled has saved all
\* six checkpoints of a problem with two parameters
C11_Witness ==
    \E d \in env.stale :
        /\ Saved(d) = Range(Labels)
        /\ Len(Checkpoint(d, 6)["parameters"]) = 2
        /\ DOMAIN Checkpoint(d, 6) =
              {"description", "parameters", "objective", "constraints", "variables"}

\* the symbols the parameter-loading section of a program looks up in `data`
DataLookups(code) ==
    {code[i][3] : i \in {i \in DOMAIN code :
                            Len(code[i]) >= 3 /\ code[i][2] = " = data[\""}}
\* the keys of a data.json document
DataKeys(data) == {data[i].symbol : i \in 2..(Len(data) - 1)}

\* C12: once a run has written code.py, every symbol the program looks up
\* in `data` is a key of the data.json the run wrote, also for parameters
\* that have no value.
C12_DataKeysCoverLookups ==
    \A d \in Dirs :
        (/\ Ran(d, "generate")
         /\ fs[RunDir(d)]["code.py"] =
                <<generate_code(state[d], ProblemInfo(d)).code>>)
        => DataLookups(fs[RunDir(d)]["code.py"][1])
              \subseteq DataKeys(fs[RunDir(d)]["data.json"][1])

====
